---- MODULE Spec2Model ----
(***************************************************************************)
(* DiscreteSACPolicy (tianshou/policy/modelfree/discrete_sac.py): one      *)
(* learning step = _target_q (bootstrap target) followed by learn().       *)
(*                                                                         *)
(* Fixed-point units used for the float tensors of the code:               *)
(*   critic values, returns, TD errors, priorities : 1/1000                *)
(*   probabilities                                 : 1/8                   *)
(*   entropy, target_entropy                       : 1/100 nat             *)
(*   alpha                                         : 1/1000                *)
(*   log_alpha                                     : 1/10000               *)
(*   target_q, actor objective / actor_loss        : 1/800000              *)
(*   critic losses                                 : 1/1000000             *)
(*   alpha_loss                                    : 1/1000000             *)
(* Networks are tabular: a critic is a table obs -> action -> value, the   *)
(* actor holds one parameter theta per observation.                        *)
(***************************************************************************)
EXTENDS Integers, Sequences, FiniteSets, TLC

VARIABLES
    critic1, critic2,           \* online critics          (self.critic1/2)
    critic1_old, critic2_old,   \* target critics          (self.critic1_old/2_old)
    actor,                      \* actor parameters        (self.actor)
    log_alpha, alpha,           \* self._log_alpha, self._alpha
    is_auto_alpha,              \* self._is_auto_alpha
    target_entropy,             \* self._target_entropy
    pc,                         \* position inside the learning step
    batch,                      \* the Batch object handed to learn()
    loc,                        \* locals of learn()
    result,                     \* mapping returned by learn()
    target_q,                   \* tensor returned by _target_q
    obs_next,                   \* batch.obs_next of the rows _target_q was called on
    fwd,                        \* Batch returned by the last inference forward()
    start,                      \* parameters and batch as they were when learn() was entered
    trace,                      \* stages executed so far by the current learn() call
    reads,                      \* value of self._alpha read by _target_q / by the actor update
    calls                       \* learning steps started

vars == <<critic1, critic2, critic1_old, critic2_old, actor, log_alpha, alpha,
          is_auto_alpha, target_entropy, pc, batch, loc, result, target_q,
          obs_next, fwd, start, trace, reads, calls>>

params == <<critic1, critic2, critic1_old, critic2_old, actor, log_alpha, alpha>>
config == <<is_auto_alpha, target_entropy>>

----------------------------------------------------------------------------
(* Bounds of the model *)

BatchSize == 2
MaxCalls == 2

Obs == 0 .. 1
Actions == 0 .. 1

(* alpha: float = 0.2 *)
AlphaDefault == 200

----------------------------------------------------------------------------
(* Tensor helpers *)

RECURSIVE SumSeq(_)
SumSeq(s) == IF Len(s) = 0 THEN 0 ELSE Head(s) + SumSeq(Tail(s))

RECURSIVE SumOver(_, _)
SumOver(f, S) ==
    IF S = {} THEN 0
    ELSE LET x == CHOOSE y \in S : TRUE IN f[x] + SumOver(f, S \ {x})

Mean(s) == SumSeq(s) \div Len(s)

Min(a, b) == IF a <= b THEN a ELSE b

Sign(x) == IF x > 0 THEN 1 ELSE IF x < 0 THEN -1 ELSE 0

Clip(x) == IF x > 3 THEN 3 ELSE IF x < -3 THEN -3 ELSE x

Has(b, f) == f \in DOMAIN b

(* Batch.pop(key, default): the batch without the key *)
Pop(b, f) == [k \in DOMAIN b \ {f} |-> b[k]]

(* batch.key = value *)
SetField(b, f, v) == [k \in DOMAIN b \cup {f} |-> IF k = f THEN v ELSE b[k]]

----------------------------------------------------------------------------
(* Networks and the categorical distribution *)

(* self.actor(obs): unnormalised action scores exp(logit_a) of one observation *)
ActorNet(a, o) == [x \in Actions |-> IF x = 0 THEN 4 - a[o] ELSE 4 + a[o]]

(* -p*log(p) of p = k/8 *)
NegPLogP(k) ==
    CASE k = 1 -> 26 [] k = 2 -> 35 [] k = 3 -> 37 [] k = 4 -> 35
      [] k = 5 -> 29 [] k = 6 -> 22 [] k = 7 -> 12 [] OTHER -> 0

(* Categorical(logits=logits): probs and entropy *)
Categorical(w) ==
    LET tot == SumOver(w, Actions)
        p == [x \in Actions |-> (8 * w[x]) \div tot]
    IN [probs |-> p, entropy |-> SumOver([x \in Actions |-> NegPLogP(p[x])], Actions)]

(* forward(): the distribution of every row of the input field *)
Forward(a, o) == [i \in 1 .. Len(o) |-> Categorical(ActorNet(a, o[i]))]

(* critic(batch.obs): one value vector per row *)
CriticNet(c, o) == [i \in 1 .. Len(o) |-> c[o[i]]]

(* .gather(1, act).flatten() *)
Gather(q, act) == [i \in 1 .. Len(act) |-> q[i][act[i]]]

(* torch.min(q1, q2), element-wise *)
MinQ(q1, q2) == [i \in 1 .. Len(q1) |-> [x \in Actions |-> Min(q1[i][x], q2[i][x])]]

(* exp(), 4th-order series in fixed point: 1/10000 in, 1/1000 out *)
Exp(x) ==
    LET e4 == 10000 + x \div 4
        e3 == 10000 + (x * e4) \div 30000
        e2 == 10000 + (x * e3) \div 20000
        e1 == 10000 + (x * e2) \div 10000
    IN e1 \div 10

----------------------------------------------------------------------------
(* _target_q, lines 77-89 *)

(* dist.probs * min(critic1_old(obs_next), critic2_old(obs_next)), summed over the
   action axis, plus self._alpha * dist.entropy() *)
TargetQ(a, c1o, c2o, al, nxt) ==
    LET dist == Forward(a, nxt)
        q == MinQ(CriticNet(c1o, nxt), CriticNet(c2o, nxt))
    IN [i \in 1 .. Len(nxt) |->
           100 * SumOver([x \in Actions |-> dist[i].probs[x] * q[i][x]], Actions)
           + 8 * al * dist[i].entropy]

----------------------------------------------------------------------------
(* learn, lines 91-148: the tensor computations *)

(* weight = batch.pop("weight", 1.0) *)
PopWeight(b) ==
    IF Has(b, "weight") THEN [kind |-> "tensor", value |-> b.weight]
    ELSE [kind |-> "scalar", value |-> 1]

WeightAt(w, i) == IF w.kind = "scalar" THEN w.value ELSE w.value[i]

(* shapes that torch broadcasts against each other *)
Broadcastable(n, m) == n = m \/ n = 1 \/ m = 1

At(s, i) == IF Len(s) = 1 THEN s[1] ELSE s[i]

(* current_q - target_q *)
TdError(cur, tq) ==
    [i \in 1 .. (IF Len(cur) >= Len(tq) THEN Len(cur) ELSE Len(tq)) |-> At(cur, i) - At(tq, i)]

(* the importance weight left out of the loss *)
CriticLoss_m(td, w) == Mean([i \in 1 .. Len(td) |-> td[i] * td[i]])

(* (td.pow(2) * weight).mean() *)
CriticLoss(td, w) == Mean([i \in 1 .. Len(td) |-> td[i] * td[i] * WeightAt(w, i)])

(* zero_grad(); loss.backward(); optim.step(): one gradient-descent step (learning
   rate 1/2) on the entries the batch touches *)
CriticStep(c, o, act, td, w) ==
    [ob \in Obs |-> [x \in Actions |->
        c[ob][x] - SumSeq([i \in 1 .. Len(td) |->
                      IF o[i] = ob /\ act[i] = x THEN WeightAt(w, i) * td[i] ELSE 0])
                   \div Len(td)]]

(* the priority taken from the magnitudes of the TD errors *)
Priority_m(td1, td2) ==
    [i \in 1 .. Len(td1) |->
        ((IF td1[i] < 0 THEN 0 - td1[i] ELSE td1[i])
         + (IF td2[i] < 0 THEN 0 - td2[i] ELSE td2[i])) \div 2]

(* (td1 + td2) / 2.0 *)
Priority(td1, td2) == [i \in 1 .. Len(td1) |-> (td1[i] + td2[i]) \div 2]

(* self._alpha * entropy + (dist.probs * q).sum(dim=-1), one row *)
ActorObjective(al, d, q) ==
    8 * al * d.entropy + 100 * SumOver([x \in Actions |-> d.probs[x] * q[x]], Actions)

(* -(...).mean() *)
ActorLoss(al, dist, q) ==
    0 - Mean([i \in 1 .. Len(dist) |-> ActorObjective(al, dist[i], q[i])])

(* the batch objective as a function of one observation's actor parameter *)
ObjectiveAt(th, ob, o, al, q) ==
    SumSeq([i \in 1 .. Len(o) |->
        IF o[i] = ob
        THEN ActorObjective(al, Categorical(ActorNet([y \in Obs |-> th], ob)), q[i])
        ELSE 0])

(* actor_optim.zero_grad(); actor_loss.backward(); actor_optim.step(): each actor
   parameter moves one unit against the sign of its (central-difference) loss
   gradient *)
ActorStep(a, o, al, q) ==
    [ob \in Obs |->
        Clip(a[ob] + Sign(ObjectiveAt(a[ob] + 1, ob, o, al, q)
                          - ObjectiveAt(a[ob] - 1, ob, o, al, q)))]

(* the difference taken the other way round *)
LogProb_m(entropy, te) == [i \in 1 .. Len(entropy) |-> te - entropy[i]]

(* log_prob = entropy.detach() - self._target_entropy *)
LogProb(entropy, te) == [i \in 1 .. Len(entropy) |-> entropy[i] - te]

(* (self._log_alpha * log_prob).mean() *)
AlphaLoss(la, log_prob) == Mean([i \in 1 .. Len(log_prob) |-> la * log_prob[i]])

(* _alpha_optim.zero_grad(); alpha_loss.backward(); _alpha_optim.step(): one
   gradient-descent step (learning rate 1); d alpha_loss / d log_alpha = mean(log_prob) *)
AlphaStep(la, log_prob) == la - (100 * SumSeq(log_prob)) \div Len(log_prob)

(* sync_weight of the base policy: target <- (1 - tau) * target + tau * online,
   tau: float = 0.005 *)
SoftUpdate(t, o) ==
    [ob \in Obs |-> [x \in Actions |-> t[ob][x] + (5 * (o[ob][x] - t[ob][x])) \div 1000]]

(* the alpha entries added unconditionally *)
ResultKeys_m(auto) == {"loss/actor", "loss/critic1", "loss/critic2", "loss/alpha", "alpha"}

(* the keys of the returned mapping *)
ResultKeys(auto) ==
    {"loss/actor", "loss/critic1", "loss/critic2"}
    \cup (IF auto THEN {"loss/alpha", "alpha"} ELSE {})

(* result = {...}; if self._is_auto_alpha: result[...] = ... *)
Result(l, auto, al) ==
    [k \in ResultKeys(auto) |->
        CASE k = "loss/actor" -> l.actor_loss
          [] k = "loss/critic1" -> l.critic1_loss
          [] k = "loss/critic2" -> l.critic2_loss
          [] k = "loss/alpha" -> l.alpha_loss
          [] k = "alpha" -> al]

(* sync_weight() moved up, in front of the actor update *)
NextStage_m(s, auto) ==
    CASE s = "begin" -> "critic1"
      [] s = "critic1" -> "critic2"
      [] s = "critic2" -> "sync"
      [] s = "sync" -> "actor"
      [] s = "actor" -> (IF auto THEN "alpha" ELSE "return")
      [] s = "alpha" -> "return"

(* the statement order of learn(): which stage follows which *)
NextStage(s, auto) ==
    CASE s = "begin" -> "critic1"
      [] s = "critic1" -> "critic2"
      [] s = "critic2" -> "actor"
      [] s = "actor" -> (IF auto THEN "alpha" ELSE "sync")
      [] s = "alpha" -> "sync"
      [] s = "sync" -> "return"

----------------------------------------------------------------------------
(* Inputs *)

Rows == 1 .. BatchSize

ObsSeqs == {[i \in Rows |-> (i - 1) % 2], [i \in Rows |-> 1]}
ActSeqs == {[i \in Rows |-> i % 2], [i \in Rows |-> 0]}
ReturnsSeq == [i \in Rows |-> 1000 * (1 + (i % 2))]
WeightSeq == [i \in Rows |-> 1 + (i % 2)]

(* well-formed batches, without and with an importance weight *)
PlainBatches ==
    {[obs |-> o, act |-> a, returns |-> ReturnsSeq, info |-> <<>>] :
        o \in ObsSeqs, a \in ActSeqs}
GoodBatches == PlainBatches \cup {SetField(b, "weight", WeightSeq) : b \in PlainBatches}

(* batches that break the contract: a required field missing, or one row too long *)
Canonical == {b \in GoodBatches : b.obs[1] = 0 /\ b.act[1] = 1}
BadBatches ==
    {Pop(b, f) : b \in Canonical, f \in {"returns", "act", "obs", "info"}}
    \cup {[b EXCEPT !.returns = Append(@, 1000)] : b \in Canonical}
    \cup {[b EXCEPT !.act = Append(@, 0)] : b \in Canonical}

InputBatches == GoodBatches \cup BadBatches

CriticA == [ob \in Obs |-> [x \in Actions |-> 1000 * (ob + x)]]
CriticB == [ob \in Obs |-> [x \in Actions |-> 3000 - 1000 * ob - 2000 * x]]

NoLocals ==
    [weight |-> [kind |-> "none", value |-> 0], target_q |-> <<>>, act |-> <<>>,
     td1 |-> <<>>, td2 |-> <<>>, critic1_loss |-> 0, critic2_loss |-> 0,
     entropy |-> <<>>, actor_loss |-> 0, alpha_loss |-> 0]

Snapshot(b) ==
    [critic1 |-> critic1, critic2 |-> critic2, critic1_old |-> critic1_old,
     critic2_old |-> critic2_old, actor |-> actor, log_alpha |-> log_alpha,
     alpha |-> alpha, batch |-> b]

----------------------------------------------------------------------------
(* the constructor of the base policy, called at lines 58-61: the target critics
   are copies of the online critics; a tuple alpha switches auto-tuning on and
   alpha = exp(log_alpha), a float alpha is kept as it is *)
BaseInit ==
    /\ critic1_old = critic1
    /\ critic2_old = critic2
    /\ alpha = (IF is_auto_alpha THEN Exp(log_alpha) ELSE AlphaDefault)

(* __init__, lines 40-62 *)
Init ==
    /\ critic1 \in {CriticA, CriticB}
    /\ critic2 = (IF critic1 = CriticA THEN CriticB ELSE CriticA)
    /\ actor \in {[ob \in Obs |-> IF ob = 0 THEN 2 ELSE -2],
                  [ob \in Obs |-> IF ob = 0 THEN 3 ELSE 0]}
    /\ is_auto_alpha \in BOOLEAN
    /\ target_entropy = (IF is_auto_alpha THEN 57 ELSE 0)
    /\ log_alpha = (IF is_auto_alpha THEN -10000 ELSE 0)
    /\ BaseInit
    /\ pc = "idle"
    /\ batch = <<>>
    /\ loc = NoLocals
    /\ result = <<>>
    /\ target_q = <<>>
    /\ obs_next = <<>>
    /\ fwd = <<>>
    /\ start = Snapshot(<<>>)
    /\ trace = <<>>
    /\ reads = [tq |-> -1, actor |-> -1]
    /\ calls = 0

(* the online critics queried for the target *)
TargetCritics_m == <<critic1, critic2>>

(* the critics _target_q queries, lines 85-86 *)
TargetCritics == <<critic1_old, critic2_old>>

(* the critic outputs of the start of the call reused for the actor *)
ActorCritics_m == <<start.critic1, start.critic2>>

(* the critics the actor update queries, lines 120-121 *)
ActorCritics == <<critic1, critic2>>

(* alpha recomputed before the optimizer step instead of after it *)
NewAlpha_m(la_before, la_after) == Exp(la_before)

(* self._alpha = self._log_alpha.detach().exp(), line 135, after the step of line 134 *)
NewAlpha(la_before, la_after) == Exp(la_after)

Between == pc \in {"idle", "done", "raised"}

(* forward, lines 64-75, as the inference entry point: one observation row, the
   action sampled from the distribution *)
ForwardCall ==
    /\ Between
    /\ \E ob \in Obs :
        LET dist == Forward(actor, <<ob>>)
        IN \E x \in Actions :
            /\ dist[1].probs[x] > 0
            /\ fwd' = [probs |-> dist[1].probs, act |-> x]
    /\ UNCHANGED <<params, config, pc, batch, loc, result, target_q, obs_next, start,
                   trace, reads, calls>>

(* _target_q, lines 77-89: called by the return assembly before learn() *)
TargetQCall ==
    /\ Between
    /\ calls < MaxCalls
    /\ \E k \in Obs : obs_next' = [i \in Rows |-> (i + k) % 2]
    /\ target_q' = TargetQ(actor, TargetCritics[1], TargetCritics[2], alpha, obs_next')
    /\ reads' = [tq |-> alpha, actor |-> -1]
    /\ pc' = "learn"
    /\ calls' = calls + 1
    /\ batch' = <<>>
    /\ loc' = NoLocals
    /\ result' = <<>>
    /\ fwd' = <<>>
    /\ start' = Snapshot(<<>>)
    /\ trace' = <<>>
    /\ UNCHANGED <<params, config>>

(* learn, lines 91-95 *)
LearnCall ==
    /\ pc = "learn"
    /\ \E b \in InputBatches :
        /\ start' = Snapshot(b)
        /\ batch' = Pop(b, "weight")
        /\ IF Has(b, "returns") /\ Has(b, "act")
           THEN /\ loc' = [loc EXCEPT !.weight = PopWeight(b),
                                      !.target_q = b.returns, !.act = b.act]
                /\ pc' = NextStage("begin", is_auto_alpha)
           ELSE /\ loc' = [loc EXCEPT !.weight = PopWeight(b)]
                /\ pc' = "raised"
    /\ UNCHANGED <<params, config, result, target_q, obs_next, fwd, trace, reads, calls>>

(* learn, lines 97-104 *)
Critic1Update ==
    /\ pc = "critic1"
    /\ IF \/ ~Has(batch, "obs")
          \/ Len(loc.act) > Len(batch.obs)
          \/ ~Broadcastable(Len(loc.act), Len(loc.target_q))
       THEN /\ pc' = "raised"
            /\ UNCHANGED <<critic1, loc, trace>>
       ELSE LET current_q1 == Gather(CriticNet(critic1, batch.obs), loc.act)
                td1 == TdError(current_q1, loc.target_q)
            IN /\ loc' = [loc EXCEPT !.td1 = td1,
                                     !.critic1_loss = CriticLoss(td1, loc.weight)]
               /\ critic1' = CriticStep(critic1, batch.obs, loc.act, td1, loc.weight)
               /\ trace' = Append(trace, "critic1")
               /\ pc' = NextStage("critic1", is_auto_alpha)
    /\ UNCHANGED <<critic2, critic1_old, critic2_old, actor, log_alpha, alpha, config,
                   batch, result, target_q, obs_next, fwd, start, reads, calls>>

(* critic1_optim.step() repeated in the critic 2 block: critic1 steps again along its
   gradient, critic2 is never stepped *)
Critic2Update_m ==
    /\ pc = "critic2"
    /\ LET current_q2 == Gather(CriticNet(critic2, batch.obs), loc.act)
           td2 == TdError(current_q2, loc.target_q)
       IN /\ loc' = [loc EXCEPT !.td2 = td2,
                                !.critic2_loss = CriticLoss(td2, loc.weight)]
          /\ critic1' = CriticStep(critic1, batch.obs, loc.act, loc.td1, loc.weight)
          /\ batch' = SetField(batch, "weight", Priority(loc.td1, td2))
    /\ trace' = Append(trace, "critic2")
    /\ pc' = NextStage("critic2", is_auto_alpha)
    /\ UNCHANGED <<critic2, critic1_old, critic2_old, actor, log_alpha, alpha, config,
                   result, target_q, obs_next, fwd, start, reads, calls>>

(* learn, lines 106-114 *)
Critic2Update ==
    /\ pc = "critic2"
    /\ LET current_q2 == Gather(CriticNet(critic2, batch.obs), loc.act)
           td2 == TdError(current_q2, loc.target_q)
       IN /\ loc' = [loc EXCEPT !.td2 = td2,
                                !.critic2_loss = CriticLoss(td2, loc.weight)]
          /\ critic2' = CriticStep(critic2, batch.obs, loc.act, td2, loc.weight)
          /\ batch' = SetField(batch, "weight", Priority(loc.td1, td2))
    /\ trace' = Append(trace, "critic2")
    /\ pc' = NextStage("critic2", is_auto_alpha)
    /\ UNCHANGED <<critic1, critic1_old, critic2_old, actor, log_alpha, alpha, config,
                   result, target_q, obs_next, fwd, start, reads, calls>>

(* learn, lines 116-127; forward reads batch.info (line 72) *)
ActorUpdate ==
    /\ pc = "actor"
    /\ IF ~Has(batch, "info")
       THEN /\ pc' = "raised"
            /\ UNCHANGED <<actor, loc, trace, reads>>
       ELSE LET dist == Forward(actor, batch.obs)
                entropy == [i \in 1 .. Len(dist) |-> dist[i].entropy]
                q == MinQ(CriticNet(ActorCritics[1], batch.obs),
                          CriticNet(ActorCritics[2], batch.obs))
            IN /\ loc' = [loc EXCEPT !.entropy = entropy,
                                     !.actor_loss = ActorLoss(alpha, dist, q)]
               /\ actor' = ActorStep(actor, batch.obs, alpha, q)
               /\ reads' = [reads EXCEPT !.actor = alpha]
               /\ trace' = Append(trace, "actor")
               /\ pc' = NextStage("actor", is_auto_alpha)
    /\ UNCHANGED <<critic1, critic2, critic1_old, critic2_old, log_alpha, alpha, config,
                   batch, result, target_q, obs_next, fwd, start, calls>>

(* learn, lines 129-135 *)
AlphaUpdate ==
    /\ pc = "alpha"
    /\ LET log_prob == LogProb(loc.entropy, target_entropy)
       IN /\ loc' = [loc EXCEPT !.alpha_loss = AlphaLoss(log_alpha, log_prob)]
          /\ log_alpha' = AlphaStep(log_alpha, log_prob)
    /\ alpha' = NewAlpha(log_alpha, log_alpha')
    /\ trace' = Append(trace, "alpha")
    /\ pc' = NextStage("alpha", is_auto_alpha)
    /\ UNCHANGED <<critic1, critic2, critic1_old, critic2_old, actor, config, batch,
                   result, target_q, obs_next, fwd, start, reads, calls>>

(* learn, line 137 *)
SyncWeight ==
    /\ pc = "sync"
    /\ critic1_old' = SoftUpdate(critic1_old, critic1)
    /\ critic2_old' = SoftUpdate(critic2_old, critic2)
    /\ trace' = Append(trace, "sync")
    /\ pc' = NextStage("sync", is_auto_alpha)
    /\ UNCHANGED <<critic1, critic2, actor, log_alpha, alpha, config, batch, loc,
                   result, target_q, obs_next, fwd, start, reads, calls>>

(* learn, lines 139-148 *)
Return ==
    /\ pc = "return"
    /\ result' = Result(loc, is_auto_alpha, alpha)
    /\ pc' = "done"
    /\ UNCHANGED <<params, config, batch, loc, target_q, obs_next, fwd, start, trace,
                   reads, calls>>

Next ==
    \/ ForwardCall
    \/ TargetQCall
    \/ LearnCall
    \/ Critic1Update
    \/ Critic2Update
    \/ ActorUpdate
    \/ AlphaUpdate
    \/ SyncWeight
    \/ Return

Spec == Init /\ [][Next]_vars

----------------------------------------------------------------------------
(* Quantities the properties are stated in, written out from the values learn() was
   entered with *)

InTrace(s) == \E i \in 1 .. Len(trace) : trace[i] = s

InLearn == pc \in {"critic1", "critic2", "actor", "alpha", "sync", "return", "done"}

(* the input batch's importance weight of row i, 1 when the batch carried none *)
InputWeight(i) == IF Has(start.batch, "weight") THEN start.batch.weight[i] ELSE 1

(* critic k's value at the executed action of row i, before any step of this call *)
Q1Start(i) == start.critic1[start.batch.obs[i]][start.batch.act[i]]
Q2Start(i) == start.critic2[start.batch.obs[i]][start.batch.act[i]]
Returns(i) == start.batch.returns[i]

(* probability of action x and entropy at observation ob under actor parameters a *)
ProbOf(a, ob, x) == (8 * ActorNet(a, ob)[x]) \div (ActorNet(a, ob)[0] + ActorNet(a, ob)[1])
EntropyOf(a, ob) == NegPLogP(ProbOf(a, ob, 0)) + NegPLogP(ProbOf(a, ob, 1))

(* sum_a p_a * min(q1_a, q2_a) at observation ob *)
ExpectedMin(a, q1, q2, ob) ==
    ProbOf(a, ob, 0) * Min(q1[ob][0], q2[ob][0]) + ProbOf(a, ob, 1) * Min(q1[ob][1], q2[ob][1])

StagesOfCall ==
    IF is_auto_alpha THEN <<"critic1", "critic2", "actor", "alpha", "sync">>
    ELSE <<"critic1", "critic2", "actor", "sync">>

----------------------------------------------------------------------------
(* C1: a learn() call that returns normally has run critic1 update, critic2 update,
   actor update, (entropy-coefficient update when auto-tuning), target
   synchronisation, in this order; sync_weight runs exactly once per call and is the
   last stage: every parameter update of the call precedes it, and the targets are
   untouched until it runs. *)
C1_StageOrder ==
    /\ pc \in {"return", "done"} => trace = StagesOfCall
    /\ \A i \in 1 .. Len(trace) :
          trace[i] = "sync" =>
              /\ i = Len(trace)
              /\ trace = StagesOfCall
    /\ (InLearn /\ ~InTrace("sync")) =>
          /\ critic1_old = start.critic1_old
          /\ critic2_old = start.critic2_old

C1_Witness ==
    /\ pc = "done" /\ calls = 2 /\ is_auto_alpha
    /\ critic1_old # start.critic1_old
    /\ trace[Len(trace)] = "sync"

(* C2: the mapping learn() returns always has 'loss/actor', 'loss/critic1' and
   'loss/critic2'; it has 'loss/alpha' and 'alpha' exactly when auto-alpha is
   enabled. *)
C2_ResultKeys ==
    pc = "done" =>
        /\ {"loss/actor", "loss/critic1", "loss/critic2"} \subseteq DOMAIN result
        /\ is_auto_alpha => {"loss/alpha", "alpha"} \subseteq DOMAIN result
        /\ ~is_auto_alpha => {"loss/alpha", "alpha"} \cap DOMAIN result = {}

C2_Witness == pc = "done" /\ calls = 2 /\ ~is_auto_alpha /\ DOMAIN result # {}

(* C3: after learn() returns, batch.weight[i] = (td1_i + td2_i)/2 with td_k,i =
   critic k's value at the executed action, before that critic's step, minus
   returns_i; whether or not the input batch carried a weight. *)
C3_PriorityWrittenBack ==
    pc = "done" =>
        /\ Has(batch, "weight")
        /\ DOMAIN batch.weight = Rows
        /\ \A i \in Rows :
              batch.weight[i] = ((Q1Start(i) - Returns(i)) + (Q2Start(i) - Returns(i))) \div 2

C3_Witness ==
    /\ pc = "done"
    /\ Has(start.batch, "weight")
    /\ batch.weight # start.batch.weight
    /\ \E i \in Rows : Q1Start(i) - Returns(i) < 0 /\ Q2Start(i) - Returns(i) > 0

(* C4: 'loss/critic1' and 'loss/critic2' are the batch mean of
   weight_i * (Q_k(obs_i)[act_i] - returns_i)^2 with critic k's parameters of the
   start of the call and weight_i = 1 when the batch has no weight field. *)
C4_CriticLosses ==
    pc = "done" =>
        /\ result["loss/critic1"] =
              SumSeq([i \in Rows |->
                  InputWeight(i) * (Q1Start(i) - Returns(i)) * (Q1Start(i) - Returns(i))])
              \div BatchSize
        /\ result["loss/critic2"] =
              SumSeq([i \in Rows |->
                  InputWeight(i) * (Q2Start(i) - Returns(i)) * (Q2Start(i) - Returns(i))])
              \div BatchSize

C4_Witness ==
    /\ pc = "done"
    /\ Has(start.batch, "weight")
    /\ critic1 # start.critic1
    /\ result["loss/critic2"] > 0
    /\ \E i \in Rows : InputWeight(i) > 1 /\ Q2Start(i) # Returns(i)

(* C5: each parameter group is written by one stage only: the critic1 step changes
   only critic1, the critic2 step only critic2, the actor step only the actor, the
   entropy-coefficient step only log_alpha and alpha (never changed when auto-tuning
   is off), sync_weight only the target critics; forward(), _target_q, entering and
   leaving learn() change no parameter; no stage runs twice in a call. *)
C5_Frame ==
    [][ /\ pc = "critic1" =>
             UNCHANGED <<critic2, critic1_old, critic2_old, actor, log_alpha, alpha>>
        /\ pc = "critic2" =>
             UNCHANGED <<critic1, critic1_old, critic2_old, actor, log_alpha, alpha>>
        /\ pc = "actor" =>
             UNCHANGED <<critic1, critic2, critic1_old, critic2_old, log_alpha, alpha>>
        /\ pc = "alpha" =>
             UNCHANGED <<critic1, critic2, critic1_old, critic2_old, actor>>
        /\ pc = "sync" =>
             UNCHANGED <<critic1, critic2, actor, log_alpha, alpha>>
        /\ pc \notin {"critic1", "critic2", "actor", "alpha", "sync"} => UNCHANGED params
        /\ ~is_auto_alpha => UNCHANGED <<log_alpha, alpha>>
        /\ \A i, j \in 1 .. Len(trace') : trace'[i] = trace'[j] => i = j
      ]_vars

C5_Witness ==
    /\ pc = "done"
    /\ critic1 # start.critic1
    /\ critic2 # start.critic2
    /\ actor # start.actor
    /\ log_alpha # start.log_alpha
    /\ critic1_old # start.critic1_old
    /\ critic2_old # start.critic2_old

(* C6: with auto-tuning, alpha_loss = mean(log_alpha * (entropy - target_entropy));
   the step raises log_alpha when mean(entropy - target_entropy) < 0, lowers it when
   > 0, and with entropy equal to target_entropy alpha_loss is 0 and log_alpha is
   unchanged. *)
C6_AlphaStep ==
    InTrace("alpha") =>
        LET d == SumSeq([i \in Rows |-> loc.entropy[i] - target_entropy])
        IN /\ loc.alpha_loss =
                 SumSeq([i \in Rows |-> start.log_alpha * (loc.entropy[i] - target_entropy)])
                 \div BatchSize
           /\ d < 0 => log_alpha > start.log_alpha
           /\ d > 0 => log_alpha < start.log_alpha
           /\ (\A i \in Rows : loc.entropy[i] = target_entropy) =>
                 /\ loc.alpha_loss = 0
                 /\ log_alpha = start.log_alpha

C6_Witness ==
    /\ InTrace("alpha")
    /\ SumSeq([i \in Rows |-> loc.entropy[i] - target_entropy]) < 0
    /\ log_alpha > start.log_alpha
    /\ loc.alpha_loss # 0

(* C7: with auto-tuning, alpha = exp(log_alpha) between learning steps; inside a
   step alpha keeps the value _target_q read until the actor update has run, so the
   actor update reads the alpha _target_q read, which is exp of the log_alpha the
   step started with. *)
C7_AlphaFresh ==
    is_auto_alpha =>
        /\ Between => alpha = Exp(log_alpha)
        /\ pc \in {"learn", "critic1", "critic2", "actor"} => alpha = reads.tq
        /\ pc \in {"critic1", "critic2", "actor"} => log_alpha = start.log_alpha
        /\ InTrace("actor") =>
              /\ reads.actor = reads.tq
              /\ reads.actor = Exp(start.log_alpha)

C7_Witness ==
    /\ is_auto_alpha /\ pc = "done" /\ calls = 2
    /\ reads.actor = reads.tq
    /\ alpha # reads.actor
    /\ start.log_alpha # -10000

(* C8: a learn() call on a batch with a required field missing or mismatched in size
   raises before any critic, actor or log_alpha parameter was updated, before target
   synchronisation, and with the input batch unaltered. *)
C8_FailFast ==
    pc = "raised" =>
        /\ critic1 = start.critic1
        /\ critic2 = start.critic2
        /\ actor = start.actor
        /\ log_alpha = start.log_alpha
        /\ alpha = start.alpha
        /\ critic1_old = start.critic1_old
        /\ critic2_old = start.critic2_old
        /\ DOMAIN batch = DOMAIN start.batch
        /\ \A f \in DOMAIN batch : batch[f] = start.batch[f]

(* C9: _target_q returns, per row, sum_a p_a(s') * min(Q1_target(s',a),
   Q2_target(s',a)) + alpha * H(p(.|s')), p from the online actor and the values from
   the target critics; the value is the same with the target critics swapped and,
   where the entropy is positive, strictly smaller for every smaller alpha >= 0. *)
C9_TargetValue ==
    pc = "learn" =>
        /\ DOMAIN target_q = Rows
        /\ \A i \in Rows :
              /\ target_q[i] =
                    100 * ExpectedMin(actor, critic1_old, critic2_old, obs_next[i])
                    + 8 * alpha * EntropyOf(actor, obs_next[i])
              /\ TargetQ(actor, critic2_old, critic1_old, alpha, obs_next)[i] = target_q[i]
              /\ \A al \in {0, alpha \div 2, alpha - 1} :
                    (0 <= al /\ al < alpha /\ EntropyOf(actor, obs_next[i]) > 0) =>
                        TargetQ(actor, critic1_old, critic2_old, al, obs_next)[i] < target_q[i]

C9_Witness ==
    /\ pc = "learn" /\ calls = 2
    /\ critic1_old # critic1
    /\ critic2_old # critic2
    /\ alpha > 0
    /\ EntropyOf(actor, obs_next[1]) > 0
    /\ 100 * ExpectedMin(actor, critic1, critic2, obs_next[1])
          # 100 * ExpectedMin(actor, critic1_old, critic2_old, obs_next[1])

(* C10: the actor loss is computed from the online critics as they are after both
   critic steps of the call, with the distribution of the actor as it was before its
   own step; the entropy used by the entropy-coefficient step is that same
   pre-step entropy. *)
C10_ActorInputs ==
    InTrace("actor") =>
        /\ loc.actor_loss =
              0 - (SumSeq([i \in Rows |->
                       8 * reads.actor * EntropyOf(start.actor, start.batch.obs[i])
                       + 100 * ExpectedMin(start.actor, critic1, critic2, start.batch.obs[i])])
                   \div BatchSize)
        /\ \A i \in Rows : loc.entropy[i] = EntropyOf(start.actor, start.batch.obs[i])
        /\ InTrace("alpha") =>
              loc.alpha_loss =
                  SumSeq([i \in Rows |->
                      start.log_alpha
                      * (EntropyOf(start.actor, start.batch.obs[i]) - target_entropy)])
                  \div BatchSize

C10_Witness ==
    /\ pc = "done" /\ is_auto_alpha
    /\ critic1 # start.critic1
    /\ critic2 # start.critic2
    /\ \E i \in Rows :
          /\ ExpectedMin(start.actor, critic1, critic2, start.batch.obs[i])
                # ExpectedMin(start.actor, start.critic1, start.critic2, start.batch.obs[i])
          /\ ExpectedMin(start.actor, critic1, critic2, start.batch.obs[i])
                # ExpectedMin(start.actor, critic1_old, critic2_old, start.batch.obs[i])
          /\ EntropyOf(actor, start.batch.obs[i]) # loc.entropy[i]
    /\ loc.alpha_loss # 0

====
